---- MODULE Spec2Model ----
(***************************************************************************)
(* The task_detail view of django-todo (todo/views/task_detail.py): one    *)
(* request at a time walks through the view's stages (decorators and       *)
(* permission check, merge, comment submission, edit, toggle, render),     *)
(* each stage reading the POST fields it needs and writing the Task,       *)
(* Comment and Attachment tables.                                          *)
(***************************************************************************)
EXTENDS Integers, Sequences, FiniteSets, TLC

(* ------------------------------ bounds --------------------------------- *)
\* number of Task rows in the store
NumTasks == 2
\* largest number of files one request uploads through the attachment formset
MaxFiles == 1
\* number of requests served in one behaviour
MaxRequests == 2

TaskIds == 1 .. NumTasks

\* the server's workers: each serves one request at a time
Workers == {1, 2}

(* ------------------------------ users ---------------------------------- *)
\* request.user: django.contrib.auth users (and the anonymous user)
Users ==
  [ root |-> [is_authenticated |-> TRUE,  is_superuser |-> TRUE,
              is_staff |-> TRUE,  groups |-> {}],
    ann  |-> [is_authenticated |-> TRUE,  is_superuser |-> FALSE,
              is_staff |-> TRUE,  groups |-> {"g1", "g2"}],
    bob  |-> [is_authenticated |-> TRUE,  is_superuser |-> FALSE,
              is_staff |-> FALSE, groups |-> {"g1"}],
    eve  |-> [is_authenticated |-> TRUE,  is_superuser |-> FALSE,
              is_staff |-> TRUE,  groups |-> {}],
    anon |-> [is_authenticated |-> FALSE, is_superuser |-> FALSE,
              is_staff |-> FALSE, groups |-> {}] ]

UserNames == DOMAIN Users

\* task.task_list.group: odd tasks live in a list of group g1, even ones of g2
TaskGroup(t) == IF t % 2 = 1 THEN "g1" ELSE "g2"

(* --------------------------- request data ------------------------------ *)
\* the four submit fields of the view's forms
PostFlags == [merge_task_into : BOOLEAN, add_comment : BOOLEAN,
              add_edit_task : BOOLEAN, toggle_done : BOOLEAN]

\* titles a client submits: tokens of text and tags
Titles == { <<"<script>", "x">>, <<"<b>", "x">> }

\* comment bodies a client submits
Bodies == { "fine", "too_long" }

\* uploaded files, by whether the attachment form accepts them
FileKinds == { "ok", "rejected" }

RECURSIVE SeqsUpTo(_, _)
SeqsUpTo(S, n) ==
  IF n = 0 THEN { <<>> }
  ELSE LET shorter == SeqsUpTo(S, n - 1)
       IN  shorter \cup { Append(s, x) : s \in { q \in shorter : Len(q) = n - 1 }, x \in S }

Uploads == SeqsUpTo(FileKinds, MaxFiles)

VARIABLES
  TODO_STAFF_ONLY,      \* settings.TODO_STAFF_ONLY
  HAS_TASK_MERGE,       \* todo.features.HAS_TASK_MERGE
  concurrency,          \* how many of the workers the deployment runs
  tasks,                \* Task table: id -> row
  comments,             \* Comment table: row i has id i
  attachments,          \* Attachment table
  served,               \* requests received so far
  \* per worker, the request it serves:
  pc,                   \* position of the request in task_detail
  request,              \* request.user, task_id, the submit fields of request.POST,
                        \* and the comment body and files once the view has read them
  merge_form,           \* the view's local merge_form
  comment_form,         \* the view's local comment_form
  attachments_formset,  \* the view's local attachments_formset
  form,                 \* the view's local form (AddEditTaskForm)
  messages,             \* django.contrib.messages added by the request
  outbox,               \* notification emails sent by the request
  ran,                  \* workflows of the request that wrote to the store
  task,                 \* the view's local task: the row fetched on entry
  response,             \* the HttpResponse (or the exception that ended the request)
  prev                  \* the worker's previous request, when all it wrote was a toggle

dbvars   == <<tasks, comments, attachments>>
settings == <<TODO_STAFF_ONLY, HAS_TASK_MERGE, concurrency>>
formvars == <<merge_form, comment_form, attachments_formset, form>>
vars == <<TODO_STAFF_ONLY, HAS_TASK_MERGE, concurrency, tasks, comments, attachments,
          served, pc, request, merge_form, comment_form, attachments_formset, form,
          messages, outbox, ran, task, response, prev>>

(* ------------- todo.utils and todo.models (not in the views) ----------- *)
\* todo.utils.staff_check: under staff-only mode every view is for staff users
staff_check(user) ==
  IF TODO_STAFF_ONLY THEN Users[user].is_staff ELSE TRUE

\* todo.utils.user_can_read_task, the Permission Check
user_can_read_task(task_id, user) ==
  \/ Users[user].is_superuser
  \/ /\ TODO_STAFF_ONLY => Users[user].is_staff
     /\ TaskGroup(task_id) \in Users[user].groups

\* Task.merge_into: the source's comments go to the target, the source is marked
merge_into(tbl, cmts, source, target) ==
  [ comments |-> [i \in DOMAIN cmts |->
                    IF cmts[i].task = source THEN [cmts[i] EXCEPT !.task = target]
                    ELSE cmts[i]],
    tasks    |-> [tbl EXCEPT ![source].merged_into = target] ]

\* todo.utils.toggle_task_completed: flips the flag, reports whether it changed
toggle_task_completed(tbl, task_id) ==
  LET flipped == [tbl EXCEPT ![task_id].completed = ~@]
  IN  [ tasks   |-> flipped,
        changed |-> flipped[task_id].completed # tbl[task_id].completed ]

\* todo.utils.send_email_to_thread_participants: the distinct comment authors
send_email_to_thread_participants(cmts, task_id) ==
  { cmts[i].author : i \in { j \in DOMAIN cmts : cmts[j].task = task_id } }

(* ------------------------------- forms --------------------------------- *)
NoMergeForm      == [state |-> "None",    merge_target |-> 0]
UnboundMergeForm == [state |-> "unbound", merge_target |-> 0]
BoundMergeForm(data) == [state |-> "bound", merge_target |-> data]

\* MergeForm.is_valid: the ModelChoiceField resolves the choice in Task.objects.all()
MergeForm_is_valid(f, tbl) ==
  f.state = "bound" /\ f.merge_target \in DOMAIN tbl

UnboundCommentForm == [bound |-> FALSE, body |-> ""]
UnboundFormSet     == [bound |-> FALSE, files |-> <<>>]
UnboundTaskForm    == [bound |-> FALSE, title |-> <<>>, fields_ok |-> TRUE]

\* AddEditCommentForm.is_valid: the body meets the form's constraints
AddEditCommentForm_is_valid(f) == f.bound /\ f.body = "fine"

\* AttachmentFormSet.is_valid: every uploaded file passes its form
AttachmentFormSet_is_valid(f) ==
  f.bound /\ \A i \in DOMAIN f.files : f.files[i] = "ok"

\* AddEditTaskForm.is_valid: a title is required, the other fields must clean
AddEditTaskForm_is_valid(f) == f.bound /\ f.title # <<>> /\ f.fields_ok

\* bleach's default ALLOWED_TAGS, as far as the submitted titles use them
ALLOWED_TAGS == { "<b>" }

IsTag(tok) == tok \in { "<script>", "<b>" }

\* bleach.clean(text, strip=True): tags that are not allowed are removed
bleach_clean(text) ==
  SelectSeq(text, LAMBDA tok : ~IsTag(tok) \/ tok \in ALLOWED_TAGS)

(* ----------------------------- responses ------------------------------- *)
NoResponse == [kind |-> "none", to |-> 0]
Response(kind, to) == [kind |-> kind, to |-> to]

NoTask == [id |-> 0, title |-> <<>>, completed |-> FALSE, merged_into |-> 0]
NoPrev == [task_id |-> 0, completed |-> FALSE]

NewRow == [title |-> <<"x">>, completed |-> FALSE, merged_into |-> 0]

\* the thread that exists before the first request: one comment with one file
EarlierThread == << [task |-> 1, author |-> "ann", body |-> "fine"] >>

NoRequest ==
  [user |-> "anon", task_id |-> 0,
   POST |-> [merge_task_into |-> FALSE, add_comment |-> FALSE,
             add_edit_task |-> FALSE, toggle_done |-> FALSE],
   body |-> "", FILES |-> <<>>]

\* the store and the workers before the first request
Start ==
  /\ tasks = [t \in TaskIds |-> NewRow]
  /\ comments = EarlierThread
  /\ attachments = [i \in DOMAIN comments |-> [comment |-> i]]
  /\ served = 0
  /\ pc = [w \in Workers |-> "idle"]
  /\ request = [w \in Workers |-> NoRequest]
  /\ merge_form = [w \in Workers |-> NoMergeForm]
  /\ comment_form = [w \in Workers |-> UnboundCommentForm]
  /\ attachments_formset = [w \in Workers |-> UnboundFormSet]
  /\ form = [w \in Workers |-> UnboundTaskForm]
  /\ messages = [w \in Workers |-> {}]
  /\ outbox = [w \in Workers |-> <<>>]
  /\ ran = [w \in Workers |-> {}]
  /\ task = [w \in Workers |-> NoTask]
  /\ response = [w \in Workers |-> NoResponse]
  /\ prev = [w \in Workers |-> NoPrev]

\* one worker: requests are served one after the other
Init ==
  /\ TODO_STAFF_ONLY \in BOOLEAN
  /\ HAS_TASK_MERGE \in BOOLEAN
  /\ concurrency = 1
  /\ Start

(* ----------------- task_detail: decorators and entry ------------------- *)
\* the view without its permission check
PermissionDenied_never(task_id, user) == FALSE

\* line 121: the view raises PermissionDenied for a user who cannot read the task
PermissionDenied(task_id, user) == ~user_can_read_task(task_id, user)

\* lines 107-122: login_required, user_passes_test(staff_check),
\* get_object_or_404 and the permission check
Enter(w, user, task_id, post) ==
  /\ w <= concurrency
  /\ pc[w] \in {"idle", "done"}
  /\ served < MaxRequests
  /\ served' = served + 1
  /\ request' = [request EXCEPT ![w] =
                   [user |-> user, task_id |-> task_id, POST |-> post,
                    body |-> "", FILES |-> <<>>]]
  /\ merge_form' = [merge_form EXCEPT ![w] = NoMergeForm]
  /\ comment_form' = [comment_form EXCEPT ![w] = UnboundCommentForm]
  /\ attachments_formset' = [attachments_formset EXCEPT ![w] = UnboundFormSet]
  /\ form' = [form EXCEPT ![w] = UnboundTaskForm]
  /\ messages' = [messages EXCEPT ![w] = {}]
  /\ outbox' = [outbox EXCEPT ![w] = <<>>]
  /\ ran' = [ran EXCEPT ![w] = {}]
  /\ prev' = [prev EXCEPT ![w] =
                IF pc[w] = "done" /\ ran[w] = {"toggle"}
                THEN [task_id |-> task[w].id, completed |-> task[w].completed]
                ELSE NoPrev]
  /\ UNCHANGED <<dbvars, settings>>
  /\ IF ~Users[user].is_authenticated \/ ~staff_check(user)
     THEN /\ response' = [response EXCEPT ![w] = Response("login", 0)]
          /\ task' = [task EXCEPT ![w] = NoTask]
          /\ pc' = [pc EXCEPT ![w] = "done"]
     ELSE IF task_id \notin DOMAIN tasks
     THEN /\ response' = [response EXCEPT ![w] = Response("404", 0)]
          /\ task' = [task EXCEPT ![w] = NoTask]
          /\ pc' = [pc EXCEPT ![w] = "done"]
     ELSE /\ task' = [task EXCEPT ![w] =
                        [id |-> task_id, title |-> tasks[task_id].title,
                         completed |-> tasks[task_id].completed,
                         merged_into |-> tasks[task_id].merged_into]]
          /\ IF PermissionDenied(task_id, user)
             THEN /\ response' = [response EXCEPT ![w] = Response("403", task_id)]
                  /\ pc' = [pc EXCEPT ![w] = "done"]
             ELSE /\ response' = [response EXCEPT ![w] = NoResponse]
                  /\ pc' = [pc EXCEPT ![w] = "merge"]

(* ------------------------ task_detail: merge --------------------------- *)
\* the merge without the check of its target
MergeTargetDenied_never(target, user) == FALSE

\* line 145: the merge target must be readable by the acting user
MergeTargetDenied(target, user) == ~user_can_read_task(target, user)

\* lines 124-150
MergeStage(w) ==
  /\ pc[w] = "merge"
  /\ UNCHANGED <<settings, attachments, served, request, comment_form,
                 attachments_formset, form, messages, outbox, task, prev>>
  /\ IF ~HAS_TASK_MERGE
     THEN /\ merge_form' = [merge_form EXCEPT ![w] = NoMergeForm]
          /\ pc' = [pc EXCEPT ![w] = "comment"]
          /\ UNCHANGED <<tasks, comments, ran, response>>
     ELSE IF ~request[w].POST.merge_task_into
     THEN /\ merge_form' = [merge_form EXCEPT ![w] = UnboundMergeForm]
          /\ pc' = [pc EXCEPT ![w] = "comment"]
          /\ UNCHANGED <<tasks, comments, ran, response>>
     ELSE \E data \in 0 .. NumTasks :
            LET f == BoundMergeForm(data)
            IN  /\ merge_form' = [merge_form EXCEPT ![w] = f]
                /\ pc' = [pc EXCEPT ![w] = "done"]
                /\ IF ~MergeForm_is_valid(f, tasks)
                   THEN \* merge_target is unbound on line 145: UnboundLocalError
                        /\ response' = [response EXCEPT ![w] = Response("500", 0)]
                        /\ UNCHANGED <<tasks, comments, ran>>
                   ELSE IF MergeTargetDenied(f.merge_target, request[w].user)
                   THEN /\ response' = [response EXCEPT ![w] =
                                          Response("403", f.merge_target)]
                        /\ UNCHANGED <<tasks, comments, ran>>
                   ELSE LET m == merge_into(tasks, comments, task[w].id, f.merge_target)
                        IN  /\ tasks' = m.tasks
                            /\ comments' = m.comments
                            /\ ran' = [ran EXCEPT ![w] = @ \cup {"merge"}]
                            /\ response' = [response EXCEPT ![w] =
                                 Response("redirect_task", f.merge_target)]

(* ------------------ handle_add_comment (lines 56-104) ------------------ *)
\* a comment saved without its task
NewComment_no_task(t, user, body) == [task |-> 0, author |-> user, body |-> body]

\* lines 69-73: the Comment built from the form, bound to the task and the user
NewComment(t, user, body) == [task |-> t.id, author |-> user, body |-> body]

\* an attachment saved without the id of its comment
NewAttachment_unbound(comment_id) == [comment |-> 0]

\* lines 80-83: each Attachment of the formset is bound to the saved comment
NewAttachment(comment_id) == [comment |-> comment_id]

\* comment.save() ahead of the formset's validation
SavesComment_early(cf, fs) == AddEditCommentForm_is_valid(cf)

\* lines 67 and 78: comment.save() runs once both the form and the formset are valid
SavesComment(cf, fs) ==
  AddEditCommentForm_is_valid(cf) /\ AttachmentFormSet_is_valid(fs)

\* lines 157-160 and 56-104
CommentStage(w) ==
  /\ pc[w] = "comment"
  /\ pc' = [pc EXCEPT ![w] = "edit"]
  /\ UNCHANGED <<settings, tasks, served, merge_form, form, task, response, prev>>
  /\ IF ~request[w].POST.add_comment
     THEN /\ comment_form' = [comment_form EXCEPT ![w] = UnboundCommentForm]
          /\ attachments_formset' = [attachments_formset EXCEPT ![w] = UnboundFormSet]
          /\ UNCHANGED <<comments, attachments, request, messages, outbox, ran>>
     ELSE \E body \in Bodies, files \in Uploads :
            LET cf == [bound |-> TRUE, body |-> body]
                fs == [bound |-> TRUE, files |-> files]
                comment == NewComment(task[w], request[w].user, body)
                id == Len(comments) + 1
                saved == Append(comments, comment)
            IN  /\ request' = [request EXCEPT ![w].body = body, ![w].FILES = files]
                /\ IF SavesComment(cf, fs)
                   THEN /\ comments' = saved
                        /\ ran' = [ran EXCEPT ![w] = @ \cup {"comment"}]
                   ELSE UNCHANGED <<comments, ran>>
                /\ IF ~AddEditCommentForm_is_valid(cf)
                   THEN \* line 104: the caller's formset comes back as passed in
                        /\ comment_form' = [comment_form EXCEPT ![w] = cf]
                        /\ attachments_formset' =
                             [attachments_formset EXCEPT ![w] = UnboundFormSet]
                        /\ UNCHANGED <<attachments, messages, outbox>>
                   ELSE IF ~AttachmentFormSet_is_valid(fs)
                   THEN /\ comment_form' = [comment_form EXCEPT ![w] = cf]
                        /\ attachments_formset' = [attachments_formset EXCEPT ![w] = fs]
                        /\ UNCHANGED <<attachments, messages, outbox>>
                   ELSE /\ attachments' = attachments \o
                             [i \in 1 .. Len(files) |-> NewAttachment(id)]
                        /\ outbox' = [outbox EXCEPT ![w] = Append(@,
                             send_email_to_thread_participants(saved, task[w].id))]
                        /\ messages' = [messages EXCEPT ![w] = @ \cup {"Comment posted."}]
                        /\ comment_form' = [comment_form EXCEPT ![w] = UnboundCommentForm]
                        /\ attachments_formset' =
                             [attachments_formset EXCEPT ![w] = UnboundFormSet]

(* ------------------------- task_detail: edit --------------------------- *)
\* the title saved as submitted
CleanTitle_raw(f) == f.title

\* line 175: the title is cleaned before the task is saved
CleanTitle(f) == bleach_clean(f.title)

\* an edit that does not return after saving
AfterEdit_falls_through(valid) == "toggle"

\* lines 172-181: a valid edit returns its redirect, an invalid one falls through
AfterEdit(valid) == IF valid THEN "done" ELSE "toggle"

\* lines 162-181
EditStage(w) ==
  /\ pc[w] = "edit"
  /\ UNCHANGED <<settings, comments, attachments, served, request, merge_form,
                 comment_form, attachments_formset, outbox, task, prev>>
  /\ IF ~request[w].POST.add_edit_task
     THEN /\ form' = [form EXCEPT ![w] =
                        [bound |-> FALSE, title |-> task[w].title, fields_ok |-> TRUE]]
          /\ pc' = [pc EXCEPT ![w] = "toggle"]
          /\ UNCHANGED <<tasks, messages, ran, response>>
     ELSE \E title \in Titles, fields_ok \in BOOLEAN :
            LET f == [bound |-> TRUE, title |-> title, fields_ok |-> fields_ok]
                valid == AddEditTaskForm_is_valid(f)
            IN  /\ form' = [form EXCEPT ![w] = f]
                /\ pc' = [pc EXCEPT ![w] = AfterEdit(valid)]
                /\ IF valid
                   THEN \* item.save() writes the instance the view holds
                        /\ tasks' = [tasks EXCEPT ![task[w].id] =
                              [title |-> CleanTitle(f), completed |-> task[w].completed,
                               merged_into |-> task[w].merged_into]]
                        /\ messages' = [messages EXCEPT ![w] =
                                          @ \cup {"The task has been edited."}]
                        /\ ran' = [ran EXCEPT ![w] = @ \cup {"edit"}]
                        /\ response' = [response EXCEPT ![w] =
                                          Response("redirect_list", task[w].id)]
                   ELSE UNCHANGED <<tasks, messages, ran, response>>

(* ------------------------ task_detail: toggle -------------------------- *)
\* a toggle that never tells the user
ToggleMessage_silent(results_changed) == {}

\* lines 186-188: the message is added when the toggle reports a change
ToggleMessage(results_changed) ==
  IF results_changed THEN {"Changed completion status"} ELSE {}

\* lines 183-190
ToggleStage(w) ==
  /\ pc[w] = "toggle"
  /\ UNCHANGED <<settings, comments, attachments, served, request, formvars,
                 outbox, task, prev>>
  /\ IF request[w].POST.toggle_done
     THEN LET r == toggle_task_completed(tasks, task[w].id)
          IN  /\ tasks' = r.tasks
              /\ messages' = [messages EXCEPT ![w] = @ \cup ToggleMessage(r.changed)]
              /\ ran' = [ran EXCEPT ![w] = @ \cup {"toggle"}]
              /\ response' = [response EXCEPT ![w] =
                                Response("redirect_task", task[w].id)]
              /\ pc' = [pc EXCEPT ![w] = "done"]
     ELSE /\ pc' = [pc EXCEPT ![w] = "render"]
          /\ UNCHANGED <<tasks, messages, ran, response>>

(* ------------------------ task_detail: render -------------------------- *)
\* lines 192-209
Render(w) ==
  /\ pc[w] = "render"
  /\ response' = [response EXCEPT ![w] = Response("page", task[w].id)]
  /\ pc' = [pc EXCEPT ![w] = "done"]
  /\ UNCHANGED <<settings, dbvars, served, request, formvars, messages, outbox,
                 ran, task, prev>>

\* the stages a request goes through once it has entered the view
Stages ==
  \/ \E w \in Workers : MergeStage(w)
  \/ \E w \in Workers : CommentStage(w)
  \/ \E w \in Workers : EditStage(w)
  \/ \E w \in Workers : ToggleStage(w)
  \/ \E w \in Workers : Render(w)

Next ==
  \/ \E w \in Workers, user \in UserNames, task_id \in 1 .. NumTasks + 1,
        post \in PostFlags :
       Enter(w, user, task_id, post)
  \/ Stages

Spec == Init /\ [][Next]_vars

\* one worker, or two workers whose requests interleave stage by stage
InitInterleaved ==
  /\ \/ /\ concurrency = 1
        /\ TODO_STAFF_ONLY \in BOOLEAN
        /\ HAS_TASK_MERGE \in BOOLEAN
     \/ /\ concurrency = 2
        /\ TODO_STAFF_ONLY = FALSE
        /\ HAS_TASK_MERGE = TRUE
  /\ Start

\* requests that press one submit button at most
OneSubmit ==
  { p \in PostFlags :
      Cardinality({ k \in DOMAIN p : p[k] }) <= 1 }

\* with two workers the requests come from the users who can read a task and
\* press one button; with one worker they are those of Next
NextInterleaved ==
  \/ \E w \in Workers, user \in UserNames, task_id \in 1 .. NumTasks + 1,
        post \in PostFlags :
       /\ \/ concurrency = 1
          \/ /\ user \in {"root", "ann", "bob"}
             /\ task_id \in TaskIds
             /\ post \in OneSubmit
       /\ Enter(w, user, task_id, post)
  \/ Stages

SpecInterleaved == InitInterleaved /\ [][NextInterleaved]_vars

(* ========================= the claims, checked ========================= *)
AllSubmits == [merge_task_into |-> TRUE, add_comment |-> TRUE,
               add_edit_task |-> TRUE, toggle_done |-> TRUE]

\* the Permission Check as the specification words it: superusers pass, others
\* must be staff under staff-only mode and belong to the task's owning group
PassesCheck(user, task_id) ==
  \/ Users[user].is_superuser
  \/ /\ ~(TODO_STAFF_ONLY /\ ~Users[user].is_staff)
     /\ TaskGroup(task_id) \in Users[user].groups

Served(w) == pc[w] # "idle"

(* ------------------------------- C1 ------------------------------------ *)
\* C1 as stated: a request on an existing task by a logged-in user who fails the
\* Permission Check ends in a forbidden response, with no workflow run.
C1_AlwaysForbidden ==
  \A w \in Workers :
    ( /\ Served(w)
      /\ Users[request[w].user].is_authenticated
      /\ request[w].task_id \in TaskIds
      /\ ~PassesCheck(request[w].user, request[w].task_id) )
    => /\ pc[w] = "done"
       /\ response[w].kind = "403"
       /\ ran[w] = {}

\* whom the decorators of the view send to the login page
SentToLogin(user) ==
  ~Users[user].is_authenticated \/ (TODO_STAFF_ONLY /\ ~Users[user].is_staff)

C1_DeniedStep(w) ==
  LET r == request'[w]
  IN  ( /\ pc'[w] # "idle"
        /\ r.task_id \in TaskIds
        /\ ~PassesCheck(r.user, r.task_id) )
      => /\ pc'[w] = "done"
         /\ response'[w].kind = IF SentToLogin(r.user) THEN "login" ELSE "403"
         /\ ran'[w] = {}
         /\ messages'[w] = {}
         /\ outbox'[w] = <<>>
         /\ merge_form'[w] = NoMergeForm
         /\ comment_form'[w] = UnboundCommentForm
         /\ attachments_formset'[w] = UnboundFormSet
         /\ form'[w] = UnboundTaskForm
         /\ UNCHANGED dbvars

\* C1 (amended): a request on an existing task by a user who fails the Permission
\* Check is answered with a forbidden response, or with a redirect to the login page
\* when the user is not logged in or is not staff under staff-only mode; whatever
\* submit fields it carries, no workflow runs, no form is bound, no message or
\* email is produced and the store is unchanged.
C1_Denied == [][\A w \in Workers : C1_DeniedStep(w)]_vars

\* a member of no group of the task gets the forbidden response to a request that
\* carries all four submit fields
C1_Witness ==
  \E w \in Workers :
    /\ pc[w] = "done"
    /\ request[w].task_id \in TaskIds
    /\ ~PassesCheck(request[w].user, request[w].task_id)
    /\ request[w].POST = AllSubmits
    /\ response[w] = Response("403", request[w].task_id)
    /\ TODO_STAFF_ONLY

(* ------------------------------- C3 ------------------------------------ *)
C3_MergeStep(w) ==
  LET f == merge_form'[w]
      user == request[w].user
  IN  ( /\ pc[w] = "merge"
        /\ pc'[w] # "merge"
        /\ HAS_TASK_MERGE
        /\ request[w].POST.merge_task_into )
      => /\ ( f.merge_target \in TaskIds /\ ~PassesCheck(user, f.merge_target) )
            => /\ response'[w] = Response("403", f.merge_target)
               /\ ran'[w] = {}
               /\ UNCHANGED dbvars
         /\ ( "merge" \in ran'[w] \/ dbvars' # dbvars )
            => /\ f.merge_target \in TaskIds
               /\ PassesCheck(user, task[w].id)
               /\ PassesCheck(user, f.merge_target)
               /\ response'[w] = Response("redirect_task", f.merge_target)

\* C3: a merge whose chosen target the acting user cannot read is answered with a
\* forbidden response and changes nothing; merge_into runs only for a user who
\* passes the Permission Check on the source and on the target.
C3_MergeNeedsBoth == [][\A w \in Workers : C3_MergeStep(w)]_vars

\* bob, a member of the source's group only, asks to merge into a task of another
\* group and is refused
C3_Witness ==
  \E w \in Workers :
    /\ pc[w] = "done"
    /\ merge_form[w].state = "bound"
    /\ merge_form[w].merge_target \in TaskIds
    /\ PassesCheck(request[w].user, task[w].id)
    /\ ~PassesCheck(request[w].user, merge_form[w].merge_target)
    /\ response[w] = Response("403", merge_form[w].merge_target)
    /\ tasks[task[w].id].merged_into = 0

(* ------------------------------- C7 ------------------------------------ *)
\* C7 as stated: a merge request whose form does not validate redisplays the page
\* with the merge form, persists nothing and does not end in an unhandled error.
C7_InvalidMergeRedisplayed ==
  \A w \in Workers :
    ( /\ pc[w] = "done"
      /\ merge_form[w].state = "bound"
      /\ merge_form[w].merge_target \notin TaskIds )
    => /\ response[w].kind = "page"
       /\ ran[w] = {}

(* ------------------------------- C2 ------------------------------------ *)
\* the submission fails validation: the body breaks the form's constraints or a
\* submitted file is rejected
SubmissionFails(r) ==
  r.body # "fine" \/ \E i \in DOMAIN r.FILES : r.FILES[i] = "rejected"

IsCommentStep(w) ==
  pc[w] = "comment" /\ pc'[w] = "edit" /\ request[w].POST.add_comment

C2_FailedStep(w) ==
  ( IsCommentStep(w) /\ SubmissionFails(request'[w]) )
  => /\ UNCHANGED <<comments, attachments>>
     /\ outbox'[w] = outbox[w]
     /\ messages'[w] = messages[w]
     /\ ran'[w] = ran[w]
     /\ comment_form'[w] = [bound |-> TRUE, body |-> request'[w].body]
     /\ request'[w].body = "fine"
        => attachments_formset'[w] = [bound |-> TRUE, files |-> request'[w].FILES]

C6_SavedStep(w) ==
  LET n == Len(request'[w].FILES)
      c == Len(comments) + 1
  IN  ( IsCommentStep(w) /\ ~SubmissionFails(request'[w]) )
      => /\ Len(comments') = c
         /\ comments'[c] = [task |-> request[w].task_id, author |-> request[w].user,
                            body |-> request'[w].body]
         /\ \A i \in DOMAIN comments : comments'[i] = comments[i]
         /\ Len(attachments') = Len(attachments) + n
         /\ \A j \in DOMAIN attachments' :
              IF j \in DOMAIN attachments THEN attachments'[j] = attachments[j]
              ELSE attachments'[j].comment = c

\* C6: a valid comment submitted with n valid files stores exactly one new Comment,
\* of the request's task and user, and exactly n new Attachments, each referring
\* to that Comment; the rows stored before are as they were.
C6_OneCommentNFiles == [][\A w \in Workers : C6_SavedStep(w)]_vars

\* a comment stored with as many files as a request may carry
C6_Witness ==
  \E w \in Workers :
    /\ pc[w] = "edit"
    /\ "comment" \in ran[w]
    /\ Len(request[w].FILES) = MaxFiles
    /\ Len(comments) = Len(EarlierThread) + 1
    /\ comments[Len(comments)].author = request[w].user
    /\ Len(attachments) = Len(EarlierThread) + MaxFiles
    /\ attachments[Len(attachments)].comment = Len(comments)

(* ------------------------------- C4 ------------------------------------ *)
\* C4 as stated: once a task has been merged into another one, no comment is owned
\* by it and no later request gets into the view on it: it is not rendered, and no
\* comment, edit or toggle is applied to it.
C4_RetiredForGood ==
  \A t \in TaskIds :
    tasks[t].merged_into \notin {0, t}
    => /\ \A i \in DOMAIN comments : comments[i].task # t
       /\ \A w \in Workers :
            task[w].id = t
            => /\ pc[w] = "done"
               /\ response[w].kind # "page"
               /\ ran[w] \subseteq {"merge"}

(* ------------------------------- C5 ------------------------------------ *)
\* C5 as stated: one request runs at most one of the four workflows.
C5_AtMostOne == \A w \in Workers : Cardinality(ran[w]) <= 1

C5_Combinations ==
  { {}, {"merge"}, {"comment"}, {"edit"}, {"toggle"},
    {"comment", "edit"}, {"comment", "toggle"} }

\* C5 (amended): one request runs at most one of Task Edit, Task Merge and the
\* completion toggle, and a merge runs alone; the comment submission can run in
\* the same request as an edit or a toggle. Every write to the store is the
\* write of a workflow.
C5_AtMostOneOfThree ==
  [][ /\ \A w \in Workers : ran'[w] \in C5_Combinations
      /\ dbvars' # dbvars => \E w \in Workers : ran'[w] # ran[w] /\ ran'[w] # {} ]_vars

\* a request that stored a comment and toggled the task
C5_Witness ==
  \E w \in Workers :
    /\ pc[w] = "done"
    /\ ran[w] = {"comment", "toggle"}
    /\ request[w].POST.add_comment
    /\ request[w].POST.toggle_done
    /\ HAS_TASK_MERGE
    /\ Len(comments) = Len(EarlierThread) + 1
    /\ tasks[task[w].id].completed # task[w].completed

(* ------------------------------- C8 ------------------------------------ *)
ChangedMessage == "Changed completion status"

SecondToggle(w) ==
  pc[w] = "done" /\ ran[w] = {"toggle"} /\ prev[w].task_id = task[w].id

Toggled(w) == pc[w] = "done" /\ "toggle" \in ran[w]

EditValidates(f) == f.title # <<>> /\ f.fields_ok

\* the title without the tags that are not allowed
Sanitized(title) == SelectSeq(title, LAMBDA tok : tok # "<script>")

\* C9 as stated: an edit changes the stored task exactly when its form validates;
\* valid, the sanitized title is stored and the list view is the redirect's target;
\* invalid, the stored task is unchanged and the bound form is redisplayed.
C9_EditIffValid ==
  \A w \in Workers :
    ( pc[w] = "done" /\ form[w].bound )
    => IF EditValidates(form[w])
       THEN /\ tasks[task[w].id].title = Sanitized(form[w].title)
            /\ response[w] = Response("redirect_list", task[w].id)
       ELSE /\ tasks[task[w].id].title = task[w].title
            /\ tasks[task[w].id].completed = task[w].completed
            /\ response[w].kind = "page"

C9_EditStep(w) ==
  ( pc[w] = "edit" /\ pc'[w] # "edit" /\ request[w].POST.add_edit_task )
  => /\ form'[w].bound
     /\ IF EditValidates(form'[w])
        THEN /\ tasks'[task[w].id].title = Sanitized(form'[w].title)
             /\ "edit" \in ran'[w]
             /\ response'[w] = Response("redirect_list", task[w].id)
             /\ pc'[w] = "done"
        ELSE /\ UNCHANGED dbvars
             /\ ran'[w] = ran[w]
             /\ response'[w] = response[w]
             /\ pc'[w] = "toggle"

C9_InvalidEnd(w) ==
  ( pc'[w] = "done" /\ form'[w].bound /\ ~EditValidates(form'[w]) )
  => /\ tasks'[task'[w].id].title = task'[w].title
     /\ "edit" \notin ran'[w]
     /\ response'[w].kind =
          IF request'[w].POST.toggle_done THEN "redirect_task" ELSE "page"

\* C9 (amended): a valid edit stores the task with the sanitized title and is
\* answered with the redirect to the list view; an invalid edit stores nothing and
\* keeps the bound form, which is redisplayed unless the request also carries
\* toggle_done: then the toggle runs and its redirect is the answer. No title
\* is stored unsanitized.
C9_EditValidOrKept ==
  [][\A w \in Workers : C9_EditStep(w) /\ C9_InvalidEnd(w)]_vars

\* a title with a script tag was submitted and stored without it
C9_Witness ==
  \E w \in Workers :
    /\ pc[w] = "done"
    /\ form[w].bound
    /\ EditValidates(form[w])
    /\ form[w].title = <<"<script>", "x">>
    /\ tasks[task[w].id].title = <<"x">>
    /\ response[w].kind = "redirect_list"

(* ------------------------------- C10 ----------------------------------- *)
C10_Owned ==
  /\ \A i \in DOMAIN comments :
       comments[i].task \in TaskIds /\ comments[i].author \in UserNames
  /\ \A j \in DOMAIN attachments : attachments[j].comment \in DOMAIN comments

Merging(w) == pc[w] = "merge" /\ pc'[w] = "done" /\ "merge" \in ran'[w]

C10_Step ==
  /\ C10_Owned'
  /\ Len(comments') >= Len(comments)
  /\ Len(attachments') >= Len(attachments)
  /\ \A j \in DOMAIN attachments : attachments'[j] = attachments[j]
  /\ \A i \in DOMAIN comments :
       /\ comments'[i].author = comments[i].author
       /\ comments'[i].body = comments[i].body
       /\ comments'[i].task # comments[i].task
          => \E w \in Workers :
               /\ Merging(w)
               /\ comments[i].task = task[w].id
               /\ comments'[i].task = merge_form'[w].merge_target
  /\ ( Len(comments') > Len(comments) \/ Len(attachments') > Len(attachments) )
     => \E w \in Workers : IsCommentStep(w)
  /\ ( \E w \in Workers : pc[w] \in {"edit", "toggle", "render"} /\ pc'[w] # pc[w] )
     => UNCHANGED <<comments, attachments>>

\* C10: every stored Comment belongs to one stored Task and every stored Attachment
\* to one stored Comment; rows are added by the comment submission only, and a
\* row never changes afterwards, but for the task of a Comment that a merge moves
\* to its target.
C10_Ownership == C10_Owned /\ [][C10_Step]_vars

\* a comment was added, and a merge has moved a thread to its target
C10_Witness ==
  /\ Len(comments) > Len(EarlierThread)
  /\ Len(attachments) > Len(EarlierThread)
  /\ \E t \in TaskIds : tasks[t].merged_into \notin {0, t}
  /\ \E i \in DOMAIN comments : comments[i].task # 1
  /\ concurrency = 2

====
